---- MODULE Spec2Model ----
(***************************************************************************)
(* Letter generation (letter_maker.py) and page splitting (pdf_split.py).  *)
(*                                                                         *)
(* Text (templates, cells, file names, file contents) is a sequence of     *)
(* one-character strings, so that str.replace, re.match and the f-string   *)
(* path construction are computed character by character.                 *)
(***************************************************************************)
EXTENDS Integers, Sequences, FiniteSets, TLC

VARIABLES
    \* ---- letter_maker.main ----
    author_info,        \* cells of the author table on disk, one record per row
    abstract_file,      \* text of the abstract template (line 61)
    travel_grant_file,  \* text of the travel-grant template (line 63)
    df,                 \* the table after read_csv + fillna (lines 66-71)
    pc,                 \* position of main()
    idx,                \* 1-based position of `rec` in df.to_records()
    template_file,      \* local of main (lines 82/85)
    abstract,           \* local of main (lines 80/86)
    doc_text,           \* local of main (line 87)
    doc_name,           \* local of main (line 88)
    stdout,             \* the print() lines of main, in order
    scratch,            \* ./scratch_file.html: what is on disk, what is buffered, open?
    conv,               \* the pdfkit.from_url call in flight: outcome and what it read
    pdfs,               \* ./pdfs/: path -> the html the converter read for it, and the row
    converted,          \* history: rows whose converter call returned normally
    emails_to_send,     \* local of main (line 72)
    emails_csv,         \* ./emails_to_send.csv on disk
    \* ---- pdf_split.pdf_splitter ----
    merged_pdf,         \* pages of the merged PDF, in order
    awardees,           \* number of rows of AllAwardees.tsv
    user_names,         \* local of pdf_splitter (line 10)
    page,               \* loop variable of pdf_splitter (line 13)
    out_files,          \* files written by pdf_splitter: name -> page number and content
    created,            \* the 'Created: ...' lines, in order
    spc                 \* position of pdf_splitter

mainVars == <<author_info, abstract_file, travel_grant_file, df, pc, idx, template_file,
              abstract, doc_text, doc_name, stdout, scratch, conv, pdfs, converted,
              emails_to_send, emails_csv>>
splitVars == <<merged_pdf, awardees, user_names, page, out_files, created, spc>>
vars == <<mainVars, splitVars>>

-----------------------------------------------------------------------------
(* Bounds of the model *)

MaxRecs == 2        \* rows of the author table
PassLen == 4        \* characters of a passport cell
MaxPieces == 2      \* pieces a template is concatenated from
MaxPages == 3       \* pages of the merged PDF
MaxNames == 3       \* rows of AllAwardees.tsv

-----------------------------------------------------------------------------
(* Python values *)

None == <<"None">>          \* Python None (no text is a one-element sequence of a word)
NaN == <<"NaN">>            \* pandas missing value
NotWritten == <<"NotWritten">>   \* a file that does not exist

Blank == <<" ">>

(* Column names, letter_maker.py lines 40-48 *)
_PAPER_TITLE_COL == "Paper Title"
_PAPER_SUBMIT_COL == "PassportRequired"
_HOME_ADDR_COL == "Residential Address"
_WORK_ADDR_COL == "Work/School Address"
_WORK_TITLE_COL == "Job Title"
_EMAIL_COL == "Email"
_COUNTRY_COL == "Passport Issuing Country"
_PASSPORT_COL == "Passport Number"
_NAME_COL == "Name"

cols == {_NAME_COL, _PASSPORT_COL, _COUNTRY_COL, _EMAIL_COL, _WORK_TITLE_COL,
         _WORK_ADDR_COL, _HOME_ADDR_COL, _PAPER_SUBMIT_COL, _PAPER_TITLE_COL}

(* Placeholder tokens, letter_maker.py lines 135-144 *)
TokName == <<"#", "#", "N", "a", "m", "e", "#", "#">>
TokNameOfApplicant == <<"#", "#", "N", "a", "m", "e", " ", "o", "f", " ", "A", "p", "p", "l", "i", "c", "a", "n", "t", "#", "#">>
TokEmail == <<"#", "#", "E", "m", "a", "i", "l", " ", "A", "d", "d", "r", "e", "s", "s", "#", "#">>
TokCompany == <<"#", "#", "C", "o", "m", "p", "a", "n", "y", " ", "A", "d", "d", "r", "e", "s", "s", "#", "#">>
TokOccupation == <<"#", "#", "O", "c", "c", "u", "p", "a", "t", "i", "o", "n", "#", "#">>
TokPassport == <<"#", "#", "P", "a", "s", "s", "p", "o", "r", "t", " ", "N", "u", "m", "b", "e", "r", "#", "#">>
TokCountry == <<"#", "#", "P", "a", "s", "s", "p", "o", "r", "t", " ", "I", "s", "s", "u", "i", "n", "g", " ", "C", "o", "u", "n", "t", "r", "y", "#", "#">>
TokResidential == <<"#", "#", "R", "e", "s", "i", "d", "e", "n", "t", "i", "a", "l", " ", "A", "d", "d", "r", "e", "s", "s", "#", "#">>
TokAbstract == <<"#", "#", "A", "b", "s", "t", "r", "a", "c", "t", " ", "T", "i", "t", "l", "e", "#", "#">>

PdfDir == <<".", "/", "p", "d", "f", "s", "/">>
PdfExt == <<".", "p", "d", "f">>

-----------------------------------------------------------------------------
(* str operations *)

(* t occurs in s at position i (the first character is compared first) *)
StartsAt(s, t, i) ==
    /\ i + Len(t) - 1 <= Len(s)
    /\ Len(t) > 0 => s[i] = t[1]
    /\ SubSeq(s, i, i + Len(t) - 1) = t

(* `t in s` *)
Contains(s, t) == \E i \in 1..(Len(s) + 1) : StartsAt(s, t, i)

RECURSIVE ReplaceFrom(_, _, _, _)
ReplaceFrom(s, old, new, i) ==
    IF i > Len(s) THEN <<>>
    ELSE IF StartsAt(s, old, i) THEN new \o ReplaceFrom(s, old, new, i + Len(old))
    ELSE <<s[i]>> \o ReplaceFrom(s, old, new, i + 1)

(* s.replace(old, new) for a non-empty old: leftmost occurrences, not overlapping, *)
(* the replacement text is not scanned again                                       *)
Replace(s, old, new) == ReplaceFrom(s, old, new, 1)

(* Character classes of the pattern [A-Za-z]{0,2}[0-9]+ *)
Letters == {"A", "B", "a", "b", "z"}
Digits == {"0", "1", "9"}

-----------------------------------------------------------------------------
(* Loading the table: pd.read_csv(..., na_values=['-'], sep='\t') and fillna(' ') *)

(* Cells that read_csv turns into NaN: the empty cell, the extra na_value '-' *)
(* and the default markers (two of them stand for the default list)           *)
NaValues == {<<>>, <<"-">>, <<"N", "A">>, <<"n", "a", "n">>}

ReadCell(c) == IF c \in NaValues THEN NaN ELSE c

FillNa(v) == IF v = NaN THEN Blank ELSE v

ReadTable(table) ==
    [i \in 1..Len(table) |-> [c \in cols |-> FillNa(ReadCell(table[i][c]))]]

-----------------------------------------------------------------------------
(* FieldValidator *)

(* Variant: the blank-normalised title is not checked *)
has_abstract_noblank(rec) == rec[_PAPER_TITLE_COL] # None

has_abstract(rec) ==
    rec[_PAPER_TITLE_COL] # None /\ rec[_PAPER_TITLE_COL] # Blank

(* The longest run of characters of class cls starting at position p *)
RECURSIVE RunLength(_, _, _)
RunLength(s, p, cls) ==
    IF p <= Len(s) /\ s[p] \in cls THEN 1 + RunLength(s, p + 1, cls) ELSE 0

Min(a, b) == IF a <= b THEN a ELSE b

(* re.match(r'[A-Za-z]{0,2}[0-9]+', s): anchored at the start; the letter group is  *)
(* greedy (as many as it can take, at most 2) and gives back one letter at a time    *)
(* until a digit follows; [0-9]+ is greedy.  The result is the span matched or None. *)
RECURSIVE MatchWithLetters(_, _)
MatchWithLetters(s, k) ==
    LET d == RunLength(s, k + 1, Digits)
    IN  IF d >= 1 THEN <<"Match", 0, k + d>>
        ELSE IF k = 0 THEN None
        ELSE MatchWithLetters(s, k - 1)

(* Variant: the pattern [A-Za-z]*[0-9]+, without the limit of two letters *)
ReMatch_nolimit(s) == MatchWithLetters(s, RunLength(s, 1, Letters))

ReMatch(s) == MatchWithLetters(s, Min(2, RunLength(s, 1, Letters)))

valid_passport(rec) == ReMatch(rec[_PASSPORT_COL])

(* Python truth value of a str-or-None and of a Match-or-None *)
Truthy(v) == v # None /\ v # <<>>

-----------------------------------------------------------------------------
(* TemplateRenderer *)

modify_template(rec, tpl, abs) ==
    LET d1 == Replace(tpl, TokName, rec[_NAME_COL])
        d2 == Replace(d1, TokNameOfApplicant, rec[_NAME_COL])
        d3 == Replace(d2, TokEmail, rec[_EMAIL_COL])
        d4 == Replace(d3, TokCompany, rec[_WORK_ADDR_COL])
        d5 == Replace(d4, TokOccupation, rec[_WORK_TITLE_COL])
        d6 == Replace(d5, TokPassport, rec[_PASSPORT_COL])
        d7 == Replace(d6, TokCountry, rec[_COUNTRY_COL])
        d8 == Replace(d7, TokResidential, rec[_HOME_ADDR_COL])
    IN  IF Truthy(abs) /\ Contains(d8, TokAbstract)
        THEN Replace(d8, TokAbstract, abs)
        ELSE d8

-----------------------------------------------------------------------------
(* LetterGenerationPipeline: main() *)

(* f'{rec["Name"].replace(" ", "_")}' *)
DocName(rec) == Replace(rec[_NAME_COL], <<" ">>, <<"_">>)

(* f'./pdfs/{doc_name}.pdf' *)
PdfPath(name) == PdfDir \o name \o PdfExt

(* pd.DataFrame.from_dict(list of dicts).to_csv(path, index=None): the columns come *)
(* from the dicts' keys, so an empty list gives a table without columns             *)
ToCsv(entries) ==
    <<IF entries = <<>> THEN <<>> ELSE <<"email", "file">>,
      [i \in 1..Len(entries) |-> <<entries[i].email, entries[i].file>>]>>

CsvHeader(file) == file[1]
CsvRows(file) == file[2]

(* The lengths a buffered text write may already have put on disk before close() *)
FlushPoints(text) == 0..Len(text)

(* lines 60-72 *)
ReadInputs ==
    /\ pc = "start"
    /\ df' = ReadTable(author_info)
    /\ emails_to_send' = <<>>
    /\ idx' = 1
    /\ pc' = "loop"
    /\ UNCHANGED <<author_info, abstract_file, travel_grant_file, template_file, abstract,
                   doc_text, doc_name, stdout, scratch, conv, pdfs, converted, emails_csv>>
    /\ UNCHANGED splitVars

(* lines 73-88: the body of the loop up to the with statement *)
RenderRecord ==
    /\ pc = "loop"
    /\ idx <= Len(df)
    /\ LET rec == df[idx]
           out1 == IF rec[_PAPER_SUBMIT_COL] = <<"N", "o">>
                   THEN <<<<rec[_NAME_COL], " did not require a passport">>>>
                   ELSE <<>>
           out2 == IF ~Truthy(valid_passport(rec))
                   THEN <<<<"Passport ", rec[_PASSPORT_COL], " is not valid.">>>>
                   ELSE <<>>
           out3 == IF ~has_abstract(rec)
                   THEN <<<<rec[_NAME_COL], " did not submit an abstract">>>>
                   ELSE <<>>
           tpl == IF ~has_abstract(rec) THEN travel_grant_file ELSE abstract_file
           abs == IF ~has_abstract(rec) THEN None ELSE rec[_PAPER_TITLE_COL]
       IN  /\ stdout' = stdout \o out1 \o out2 \o out3
           /\ template_file' = tpl
           /\ abstract' = abs
           /\ doc_text' = modify_template(rec, tpl, abs)
           /\ doc_name' = DocName(rec)
    /\ pc' = "open"
    /\ UNCHANGED <<author_info, abstract_file, travel_grant_file, df, idx, scratch, conv,
                   pdfs, converted, emails_to_send, emails_csv>>
    /\ UNCHANGED splitVars

(* line 89: open('./scratch_file.html', mode='w') truncates the file *)
OpenScratch ==
    /\ pc = "open"
    /\ scratch' = [open |-> TRUE, disk |-> <<>>, buf |-> <<>>]
    /\ pc' = "write"
    /\ UNCHANGED <<author_info, abstract_file, travel_grant_file, df, idx, template_file,
                   abstract, doc_text, doc_name, stdout, conv, pdfs, converted,
                   emails_to_send, emails_csv>>
    /\ UNCHANGED splitVars

(* line 90: file_handle.write(doc_text) on a buffered handle; no flush follows *)
WriteScratch ==
    /\ pc = "write"
    /\ \E k \in FlushPoints(doc_text) :
          scratch' = [open |-> TRUE,
                      disk |-> SubSeq(doc_text, 1, k),
                      buf |-> SubSeq(doc_text, k + 1, Len(doc_text))]
    /\ pc' = "from_url"
    /\ UNCHANGED <<author_info, abstract_file, travel_grant_file, df, idx, template_file,
                   abstract, doc_text, doc_name, stdout, conv, pdfs, converted,
                   emails_to_send, emails_csv>>
    /\ UNCHANGED splitVars

(* line 91, the call: the external converter reads the path; it returns, raises or *)
(* never comes back (pdfkit waits for the subprocess without a timeout)            *)
InvokeConverter ==
    /\ pc = "from_url"
    /\ \E o \in {"returns", "raises", "hangs"} :
          conv' = [outcome |-> o, read |-> scratch.disk]
    /\ pc' = "converting"
    /\ UNCHANGED <<author_info, abstract_file, travel_grant_file, df, idx, template_file,
                   abstract, doc_text, doc_name, stdout, scratch, pdfs, converted,
                   emails_to_send, emails_csv>>
    /\ UNCHANGED splitVars

(* line 91, normal return: the PDF of what was read is at ./pdfs/<doc_name>.pdf *)
ConverterReturns ==
    /\ pc = "converting"
    /\ conv.outcome = "returns"
    /\ LET path == PdfPath(doc_name)
       IN  pdfs' = [p \in DOMAIN pdfs \cup {path} |->
                      IF p = path THEN [html |-> conv.read, row |-> idx] ELSE pdfs[p]]
    /\ converted' = converted \cup {idx}
    /\ pc' = "append"
    /\ UNCHANGED <<author_info, abstract_file, travel_grant_file, df, idx, template_file,
                   abstract, doc_text, doc_name, stdout, scratch, conv, emails_to_send,
                   emails_csv>>
    /\ UNCHANGED splitVars

(* line 91, exception: nothing catches it; the with statement closes the file and *)
(* the exception leaves main(), so lines 92-93 do not run                         *)
ConverterRaises ==
    /\ pc = "converting"
    /\ conv.outcome = "raises"
    /\ scratch' = [open |-> FALSE, disk |-> scratch.disk \o scratch.buf, buf |-> <<>>]
    /\ pc' = "raised"
    /\ UNCHANGED <<author_info, abstract_file, travel_grant_file, df, idx, template_file,
                   abstract, doc_text, doc_name, stdout, conv, pdfs, converted,
                   emails_to_send, emails_csv>>
    /\ UNCHANGED splitVars

(* Variant of line 92: emails_to_send.insert(0, ...) *)
AppendEntry_front ==
    /\ pc = "append"
    /\ emails_to_send' = <<[email |-> df[idx][_EMAIL_COL], file |-> PdfPath(doc_name)]>>
                             \o emails_to_send
    /\ pc' = "exit_with"
    /\ UNCHANGED <<author_info, abstract_file, travel_grant_file, df, idx, template_file,
                   abstract, doc_text, doc_name, stdout, scratch, conv, pdfs, converted,
                   emails_csv>>
    /\ UNCHANGED splitVars

(* line 92 *)
AppendEntry ==
    /\ pc = "append"
    /\ emails_to_send' = Append(emails_to_send,
                                [email |-> df[idx][_EMAIL_COL], file |-> PdfPath(doc_name)])
    /\ pc' = "exit_with"
    /\ UNCHANGED <<author_info, abstract_file, travel_grant_file, df, idx, template_file,
                   abstract, doc_text, doc_name, stdout, scratch, conv, pdfs, converted,
                   emails_csv>>
    /\ UNCHANGED splitVars

(* end of the with block of line 89: close() flushes the buffer; next record *)
CloseScratch ==
    /\ pc = "exit_with"
    /\ scratch' = [open |-> FALSE, disk |-> scratch.disk \o scratch.buf, buf |-> <<>>]
    /\ idx' = idx + 1
    /\ pc' = "loop"
    /\ UNCHANGED <<author_info, abstract_file, travel_grant_file, df, template_file,
                   abstract, doc_text, doc_name, stdout, conv, pdfs, converted,
                   emails_to_send, emails_csv>>
    /\ UNCHANGED splitVars

(* line 93, after the last record *)
SaveManifest ==
    /\ pc = "loop"
    /\ idx > Len(df)
    /\ emails_csv' = ToCsv(emails_to_send)
    /\ pc' = "done"
    /\ UNCHANGED <<author_info, abstract_file, travel_grant_file, df, idx, template_file,
                   abstract, doc_text, doc_name, stdout, scratch, conv, pdfs, converted,
                   emails_to_send>>
    /\ UNCHANGED splitVars

Next ==
    \/ ReadInputs
    \/ RenderRecord
    \/ OpenScratch
    \/ WriteScratch
    \/ InvokeConverter
    \/ ConverterReturns
    \/ ConverterRaises
    \/ AppendEntry
    \/ CloseScratch
    \/ SaveManifest

-----------------------------------------------------------------------------
(* PdfPageSplitter: pdf_splitter(path) *)

(* f'submission_{rec["I"]}.pdf' for row index i *)
SubmissionName(i) == <<"submission_", i, ".pdf">>

(* Variant: range(pdf.getNumPages()) *)
PageRange_all(numPages) == 0..(numPages - 1)

(* range(pdf.getNumPages()-1) *)
PageRange(numPages) == 0..(numPages - 2)

(* pdf.getPage(page), pages counted from 0 *)
GetPage(pdf, p) == pdf[p + 1]

(* lines 7-12 *)
SplitStart ==
    /\ spc = "start"
    /\ user_names' = [i \in 1..awardees |-> SubmissionName(i - 1)]
    /\ page' = 0
    /\ spc' = "loop"
    /\ UNCHANGED <<merged_pdf, awardees, out_files, created>>
    /\ UNCHANGED mainVars

(* lines 13-22, one iteration whose name exists *)
SplitPage ==
    /\ spc = "loop"
    /\ page \in PageRange(Len(merged_pdf))
    /\ page < Len(user_names)
    /\ LET output_filename == user_names[page + 1]
           written == [page |-> page, doc |-> <<GetPage(merged_pdf, page)>>]
       IN  /\ out_files' = [f \in DOMAIN out_files \cup {output_filename} |->
                               IF f = output_filename THEN written ELSE out_files[f]]
           /\ created' = Append(created, output_filename)
    /\ page' = page + 1
    /\ UNCHANGED <<merged_pdf, awardees, user_names, spc>>
    /\ UNCHANGED mainVars

(* lines 13-17, an iteration past the end of user_names: line 17 raises IndexError *)
SplitIndexError ==
    /\ spc = "loop"
    /\ page \in PageRange(Len(merged_pdf))
    /\ page >= Len(user_names)
    /\ spc' = "IndexError"
    /\ UNCHANGED <<merged_pdf, awardees, user_names, page, out_files, created>>
    /\ UNCHANGED mainVars

(* line 13, the range is exhausted: the function returns *)
SplitReturn ==
    /\ spc = "loop"
    /\ page \notin PageRange(Len(merged_pdf))
    /\ spc' = "done"
    /\ UNCHANGED <<merged_pdf, awardees, user_names, page, out_files, created>>
    /\ UNCHANGED mainVars

NextSplit ==
    \/ SplitStart
    \/ SplitPage
    \/ SplitIndexError
    \/ SplitReturn

-----------------------------------------------------------------------------
(* Initial states *)

(* All texts over chars of length lo..hi *)
Texts(chars, lo, hi) == UNION {[1..n -> chars] : n \in lo..hi}

(* All sequences over S of length lo..hi *)
SeqsOf(S, lo, hi) == UNION {[1..n -> S] : n \in lo..hi}

Row(name, passport, email, required, title) ==
    [c \in cols |->
        CASE c = _NAME_COL -> name
          [] c = _PASSPORT_COL -> passport
          [] c = _EMAIL_COL -> email
          [] c = _PAPER_SUBMIT_COL -> required
          [] c = _PAPER_TITLE_COL -> title
          [] c = _WORK_TITLE_COL -> <<"x">>
          [] OTHER -> <<>>]

Yes == <<"Y", "e", "s">>
No == <<"N", "o">>

(* main() has not started; every local is unset *)
MainIdle(p) ==
    /\ pc = p
    /\ df = <<>>
    /\ idx = 0
    /\ template_file = None
    /\ abstract = None
    /\ doc_text = None
    /\ doc_name = None
    /\ stdout = <<>>
    /\ scratch = [open |-> FALSE, disk |-> <<>>, buf |-> <<>>]
    /\ conv = [outcome |-> "none", read |-> <<>>]
    /\ pdfs = <<>>
    /\ converted = {}
    /\ emails_to_send = <<>>
    /\ emails_csv = NotWritten

(* pdf_splitter() has not started *)
SplitIdle(p) ==
    /\ spc = p
    /\ user_names = <<>>
    /\ page = 0
    /\ out_files = <<>>
    /\ created = <<>>

NoSplitInput ==
    /\ merged_pdf = <<>>
    /\ awardees = 0

NoMainInput ==
    /\ author_info = <<>>
    /\ abstract_file = <<>>
    /\ travel_grant_file = <<>>

(* The batch: tables of up to MaxRecs rows.  Two names that differ in space versus *)
(* underscore, a missing and a given paper title, a valid and a missing passport  *)
(* with either PassportRequired value, and two emails                             *)
Profiles ==
    {<<<<"A", "1">>, Yes, <<"a">>>>,
     <<<<"A", "1">>, No, <<"b">>>>,
     <<<<"-">>, Yes, <<"b">>>>,
     <<<<"-">>, No, <<"a">>>>}

BatchRows ==
    {Row(n, f[1], f[3], f[2], t) :
        n \in {<<"A", " ", "B">>, <<"A", "_", "B">>},
        f \in Profiles,
        t \in {<<>>, <<"T">>}}

Init ==
    /\ author_info \in SeqsOf(BatchRows, 0, MaxRecs)
    /\ abstract_file = TokName \o TokAbstract
    /\ travel_grant_file = TokName
    /\ MainIdle("start")
    /\ NoSplitInput
    /\ SplitIdle("off")

Spec == Init /\ [][Next]_vars

(* One-row tables over every passport cell of up to PassLen characters *)
PassChars == {"A", "z", "1", " ", "-"}

InitPassport ==
    /\ \E p \in Texts(PassChars, 0, PassLen), r \in {Yes, No} :
          author_info = <<Row(<<"A", " ", "B">>, p, <<"a">>, r, <<"T">>)>>
    /\ abstract_file = TokName \o TokAbstract
    /\ travel_grant_file = TokName
    /\ MainIdle("start")
    /\ NoSplitInput
    /\ SplitIdle("off")

SpecPassport == InitPassport /\ [][Next]_vars

(* One-row tables whose cells may hold placeholder text, and templates that are *)
(* concatenations of up to MaxPieces pieces                                     *)
Pieces == {TokName, TokEmail, TokAbstract, <<"H", "i", " ">>}

RECURSIVE Concat(_)
Concat(ss) == IF ss = <<>> THEN <<>> ELSE Head(ss) \o Concat(Tail(ss))

InitRender ==
    /\ \E n \in {<<"A", "d", "a">>, TokEmail},
          e \in {<<"e">>, TokName},
          t \in {<<>>, <<"T">>},
          ps \in SeqsOf(Pieces, 1, MaxPieces) :
          /\ author_info = <<Row(n, <<"A", "1">>, e, Yes, t)>>
          /\ abstract_file = Concat(ps)
          /\ travel_grant_file = Concat(ps)
    /\ MainIdle("start")
    /\ NoSplitInput
    /\ SplitIdle("off")

SpecRender == InitRender /\ [][Next]_vars

(* Merged PDFs of one to MaxPages pages and awardee tables of up to MaxNames rows *)
PageContents == {"p", "q"}

InitSplit ==
    /\ merged_pdf \in SeqsOf(PageContents, 1, MaxPages)
    /\ awardees \in 0..MaxNames
    /\ SplitIdle("start")
    /\ NoMainInput
    /\ MainIdle("off")

SpecSplit == InitSplit /\ [][NextSplit]_vars

-----------------------------------------------------------------------------
(* Properties *)

Range(f) == {f[i] : i \in DOMAIN f}

(* main() is past line 88 for record idx *)
Rendered == pc \in {"open", "write", "from_url", "converting", "append", "exit_with", "raised"}

(* main() has ended, by returning or by an exception *)
Ended == pc \in {"done", "raised"}

(* The manifest entry of row i: its email and the path built from its name *)
EntryOf(i) == <<df[i][_EMAIL_COL],
                PdfDir \o Replace(df[i][_NAME_COL], <<" ">>, <<"_">>) \o PdfExt>>

(* C1: when main() has finished (every conversion succeeded), the manifest, in *)
(* memory and on disk, has exactly one entry per row of the table, in table    *)
(* order, entry i pairing the email of row i with the path built from its name, *)
(* whatever the passport, the paper title and PassportRequired of the row are.  *)
C1_ManifestPerRecord ==
    pc = "done" =>
        /\ emails_csv # NotWritten
        /\ CsvRows(emails_csv) = [i \in 1..Len(df) |-> EntryOf(i)]
        /\ Len(df) > 0 => CsvHeader(emails_csv) = <<"email", "file">>
        /\ Len(emails_to_send) = Len(df)
        /\ \A i \in 1..Len(df) :
              <<emails_to_send[i].email, emails_to_send[i].file>> = EntryOf(i)

C1_Witness ==
    /\ pc = "done"
    /\ Len(df) = 2
    /\ df[1][_PAPER_SUBMIT_COL] = No
    /\ ~Truthy(valid_passport(df[1]))
    /\ ~has_abstract(df[1])
    /\ EntryOf(1) # EntryOf(2)
    /\ CsvRows(emails_csv) = <<EntryOf(1), EntryOf(2)>>

(* The rows whose conversion returned, in table order, as manifest rows *)
RECURSIVE ConvertedRows(_)
ConvertedRows(n) ==
    IF n = 0 THEN <<>>
    ELSE IF n \in converted THEN Append(ConvertedRows(n - 1), EntryOf(n))
    ELSE ConvertedRows(n - 1)

(* C2: a converter failure is a per-record failure: when main() has ended every *)
(* row has been processed and the manifest is on disk, holding exactly the rows *)
(* whose conversion succeeded.                                                  *)
C2_ConverterFailureSkipsOneRecord ==
    Ended =>
        /\ idx > Len(df)
        /\ emails_csv # NotWritten
        /\ CsvRows(emails_csv) = ConvertedRows(Len(df))

(* C3: the template rendered for a row is the travel-grant template with no     *)
(* abstract argument iff the row's Paper Title is the single blank, and         *)
(* otherwise the abstract template with the Paper Title as abstract argument;   *)
(* the text that leaves line 87 is that template rendered with that argument.   *)
C3_TemplateChoice ==
    Rendered =>
        LET title == df[idx][_PAPER_TITLE_COL]
            grant == title = Blank
        IN  /\ template_file = IF grant THEN travel_grant_file ELSE abstract_file
            /\ abstract = IF grant THEN None ELSE title
            /\ pc = "open" =>
                  doc_text = modify_template(df[idx],
                                             IF grant THEN travel_grant_file ELSE abstract_file,
                                             IF grant THEN None ELSE title)

C3_Witness ==
    /\ Rendered
    /\ df[idx][_PAPER_TITLE_COL] # Blank
    /\ df[idx][_PAPER_SUBMIT_COL] = No
    /\ ~Truthy(valid_passport(df[idx]))
    /\ template_file = abstract_file
    /\ template_file # travel_grant_file
    /\ abstract = df[idx][_PAPER_TITLE_COL]

(* C4: with N pages and N-1 names pdf_splitter returns normally having written *)
(* exactly the N-1 named files, file i holding page i alone, in increasing page *)
(* order; the last page is in no file.                                          *)
C4_SplitOnePagePerName ==
    (spc \in {"done", "IndexError"} /\ Len(user_names) = Len(merged_pdf) - 1) =>
        /\ spc = "done"
        /\ DOMAIN out_files = Range(user_names)
        /\ Cardinality(DOMAIN out_files) = Len(merged_pdf) - 1
        /\ \A i \in 0..(Len(merged_pdf) - 2) :
              out_files[user_names[i + 1]] = [page |-> i, doc |-> <<merged_pdf[i + 1]>>]
        /\ created = user_names
        /\ \A f \in DOMAIN out_files : out_files[f].page # Len(merged_pdf) - 1

C4_Witness ==
    /\ spc = "done"
    /\ Len(merged_pdf) = 3
    /\ Len(user_names) = 2
    /\ merged_pdf[1] # merged_pdf[2]
    /\ Cardinality(DOMAIN out_files) = 2

(* C5: when the number of names differs from the number of pages to write, no *)
(* file is ever written and pdf_splitter does not return normally.            *)
C5_MismatchWritesNothing ==
    (spc \in {"loop", "done", "IndexError"}
        /\ Len(user_names) # Cardinality(PageRange(Len(merged_pdf)))) =>
        /\ DOMAIN out_files = {}
        /\ spc # "done"

(* The placeholder table: token and the column it is filled from *)
Placeholders ==
    {<<TokName, _NAME_COL>>, <<TokNameOfApplicant, _NAME_COL>>, <<TokEmail, _EMAIL_COL>>,
     <<TokCompany, _WORK_ADDR_COL>>, <<TokOccupation, _WORK_TITLE_COL>>,
     <<TokPassport, _PASSPORT_COL>>, <<TokCountry, _COUNTRY_COL>>,
     <<TokResidential, _HOME_ADDR_COL>>}

(* C6: the rendered text holds no placeholder token whose field value is    *)
(* non-empty (for the abstract token: whose abstract argument was supplied). *)
C6_NoPlaceholderLeft ==
    Rendered =>
        /\ \A ph \in Placeholders :
              df[idx][ph[2]] # <<>> => ~Contains(doc_text, ph[1])
        /\ Truthy(abstract) => ~Contains(doc_text, TokAbstract)

(* Zero to two letters followed by a digit, at the start of the text *)
PassportPattern(s) ==
    \E k \in 0..2 :
        /\ k + 1 <= Len(s)
        /\ \A j \in 1..k : s[j] \in Letters
        /\ s[k + 1] \in Digits

NotValidLine(rec) == <<"Passport ", rec[_PASSPORT_COL], " is not valid.">>

C8_HungConverterExpires ==
    (pc = "converting" /\ conv.outcome = "hangs") => ENABLED Next

(* C9: what the converter reads at the scratch path is the rendered text of *)
(* the current row, and the scratch file is closed whenever the with block  *)
(* has been left.                                                           *)
C9_ScratchDurableBeforeConvert ==
    /\ pc = "converting" => conv.read = modify_template(df[idx], template_file, abstract)
    /\ pc \in {"loop", "done", "raised"} => ~scratch.open

(* C10: after main() has finished, distinct rows have distinct PDF paths, there *)
(* is one PDF per row, and the file of manifest entry i is the PDF made for     *)
(* row i.                                                                       *)
C10_OnePdfPerRecord ==
    pc = "done" =>
        /\ \A i, j \in 1..Len(df) : i # j => EntryOf(i)[2] # EntryOf(j)[2]
        /\ Cardinality(DOMAIN pdfs) = Len(df)
        /\ \A i \in 1..Len(df) : pdfs[emails_to_send[i].file].row = i

====
